---- MODULE Spec2Model ----
(***************************************************************************)
(* A model of the tagmap crate (src/src/lib.rs): the MatchRule expression  *)
(* tree, the recursive evaluator tags_match_rule, and the two lazy query   *)
(* iterators Matching and MatchingEntries over TagMap.entries.             *)
(*                                                                         *)
(* Two specifications share the variables:                                 *)
(*   SpecEval  draws a tag slice and a rule and applies tags_match_rule;   *)
(*   Spec      draws a map, creates query iterators over it (matching,     *)
(*             matching_entries, clone) and steps them with next().        *)
(***************************************************************************)
EXTENDS Integers, Sequences, FiniteSets

VARIABLES
    evalTags,    \* the `tags` argument of the evaluator call under test
    evalRule,    \* the `rule` argument of the evaluator call under test
    evalResult,  \* << >> before the call, then <<b>> for the bool it returned
    entries,     \* TagMap.entries: the BTreeMap, a function key -> Vec<TAG>
    iters        \* the live query iterators, by slot

vars == <<evalTags, evalRule, evalResult, entries, iters>>

-----------------------------------------------------------------------------
(* Bounds of the model.                                                    *)

\* Longest Vec<TAG> stored for a key or passed to the evaluator.
MaxTagLen == 2

\* Largest rule drawn for the evaluator: one per node plus one per tag.
MaxRuleSize == 3

\* Most keys in the map; keys are 1..MaxKeys, ordered as Ord orders them.
MaxKeys == 3

\* Most tags stored in the map, all keys together.
MaxMapTags == 2

\* The type parameter TAG, instantiated with two values compared by ==.
TAG == {"fish", "mammal"}

\* Every Vec<TAG> of length at most n.
TagVecs(n) == UNION {[1..k -> TAG] : k \in 0..n}

-----------------------------------------------------------------------------
(* MatchRule: the six variants.                                            *)

Tags(m_tags) == [kind |-> "Tags", tags |-> m_tags]
NotTags(m_tags) == [kind |-> "NotTags", tags |-> m_tags]
AnyTag(m_tags) == [kind |-> "AnyTag", tags |-> m_tags]
Rules(rules) == [kind |-> "Rules", rules |-> rules]
NotRules(rules) == [kind |-> "NotRules", rules |-> rules]
AnyRule(rules) == [kind |-> "AnyRule", rules |-> rules]

TagKinds == {"Tags", "NotTags", "AnyTag"}
RuleKinds == {"Rules", "NotRules", "AnyRule"}

\* The MatchRule values of a given size (nodes plus tags), and the
\* Vec<MatchRule> values whose elements' sizes add up to a given total.
RECURSIVE RulesOfSize(_), RuleVecsOfSize(_)
RulesOfSize(s) ==
    IF s < 1 THEN {}
    ELSE {[kind |-> k, tags |-> l] : k \in TagKinds, l \in [1..(s - 1) -> TAG]}
         \cup {[kind |-> k, rules |-> rs] : k \in RuleKinds, rs \in RuleVecsOfSize(s - 1)}
RuleVecsOfSize(t) ==
    IF t = 0 THEN {<<>>}
    ELSE UNION {{<<r>> \o rest : r \in RulesOfSize(f), rest \in RuleVecsOfSize(t - f)} :
                f \in 1..t}

MatchRule(n) == UNION {RulesOfSize(s) : s \in 1..n}

-----------------------------------------------------------------------------
(* tags_match_rule, arm by arm.                                            *)

\* The pairs (m_tag, tag) of the two nested loops that compare equal.
EqualPairs(tags, m_tags) ==
    {p \in (1..Len(m_tags)) \X (1..Len(tags)) : tags[p[2]] = m_tags[p[1]]}

\* Tags with a `break` after the first equal pair: counts the tags of the
\* slice that some m_tag equals.
match_Tags_break(tags, m_tags) ==
    Cardinality({j \in 1..Len(tags) : \E i \in 1..Len(m_tags) : tags[j] = m_tags[i]})
        = Len(m_tags)

\* Tags: count += 1 for every equal pair; count == m_tags.len().
match_Tags(tags, m_tags) == Cardinality(EqualPairs(tags, m_tags)) = Len(m_tags)

\* NotTags as "not all of them": fewer equal pairs than m_tags.
match_NotTags_not_all(tags, m_tags) ==
    Cardinality(EqualPairs(tags, m_tags)) < Len(m_tags)

\* NotTags: return false at the first equal pair, else true.
match_NotTags(tags, m_tags) == EqualPairs(tags, m_tags) = {}

\* AnyTag falling through to `true`.
match_AnyTag_default_true(tags, m_tags) ==
    m_tags = << >> \/ EqualPairs(tags, m_tags) # {}

\* AnyTag: return true at the first equal pair, else false.
match_AnyTag(tags, m_tags) == EqualPairs(tags, m_tags) # {}

\* Rules with `count > 0` for `count == rules.len()`.
match_Rules_some(results) ==
    Cardinality({i \in 1..Len(results) : results[i]}) > 0

\* Rules: count += 1 for every nested rule that matches; count == rules.len().
\* `results` is the sequence of the recursive calls' results.
match_Rules(results) ==
    Cardinality({i \in 1..Len(results) : results[i]}) = Len(results)

\* NotRules as "not all of them": some nested rule does not match.
match_NotRules_not_all(results) == \E i \in 1..Len(results) : ~ results[i]

\* NotRules: return false at the first nested rule that matches, else true.
match_NotRules(results) == ~ \E i \in 1..Len(results) : results[i]

\* AnyRule: return true at the first nested rule that matches, else false.
match_AnyRule(results) == \E i \in 1..Len(results) : results[i]

RECURSIVE tags_match_rule(_, _)
tags_match_rule(tags, rule) ==
    IF rule.kind \in TagKinds
    THEN CASE rule.kind = "Tags" -> match_Tags(tags, rule.tags)
           [] rule.kind = "NotTags" -> match_NotTags(tags, rule.tags)
           [] rule.kind = "AnyTag" -> match_AnyTag(tags, rule.tags)
    ELSE LET results == [i \in 1..Len(rule.rules) |->
                            tags_match_rule(tags, rule.rules[i])]
         IN  CASE rule.kind = "Rules" -> match_Rules(results)
               [] rule.kind = "NotRules" -> match_NotRules(results)
               [] rule.kind = "AnyRule" -> match_AnyRule(results)

-----------------------------------------------------------------------------
(* TagMap.entries and the BTreeMap iterator.                               *)

\* Total number of tags a map stores.
RECURSIVE MapTags(_)
MapTags(m) ==
    IF DOMAIN m = {} THEN 0
    ELSE LET k == CHOOSE x \in DOMAIN m : TRUE
         IN  Len(m[k]) + MapTags([j \in DOMAIN m \ {k} |-> m[j]])

\* The maps the host can have built with entries.insert before it queries.
TagMaps ==
    {m \in UNION {[D -> TagVecs(MaxMapTags)] : D \in SUBSET (1..MaxKeys)} :
        MapTags(m) <= MaxMapTags}

\* BTreeMap iteration order: the keys, ascending.
SortedKeys(m) ==
    [i \in 1..Cardinality(DOMAIN m) |->
        CHOOSE k \in DOMAIN m : Cardinality({j \in DOMAIN m : j <= k}) = i]

\* Option<_>
None == << >>
Some(x) == <<x>>

\* btree_map::Iter::next with `pos` entries already consumed: the next
\* (key, tags) pair in key order, or None (and None again ever after).
Iter_next(m, pos) ==
    IF pos < Cardinality(DOMAIN m)
    THEN Some(<<SortedKeys(m)[pos + 1], m[SortedKeys(m)[pos + 1]]>>)
    ELSE None

-----------------------------------------------------------------------------
(* Iterator::next for Matching and MatchingEntries.  Each returns the      *)
(* cursor after the call, the Option it returned, and the keys it took     *)
(* from the BTreeMap iterator on the way.                                  *)

\* Matching::next with `return None` for `continue`: it gives up at the
\* first entry that does not match.
Matching_next_take_while(m, rule, pos) ==
    LET e == Iter_next(m, pos)
    IN  IF e = None THEN [pos |-> pos, ret |-> None, seen |-> << >>]
        ELSE IF tags_match_rule(e[1][2], rule)
             THEN [pos |-> pos + 1, ret |-> Some(e[1][1]), seen |-> <<e[1][1]>>]
             ELSE [pos |-> pos + 1, ret |-> None, seen |-> <<e[1][1]>>]

\* Matching::next that takes one more entry from the BTreeMap iterator after
\* the match, before it returns.
RECURSIVE Matching_next_prefetch(_, _, _)
Matching_next_prefetch(m, rule, pos) ==
    LET e == Iter_next(m, pos)
    IN  IF e = None THEN [pos |-> pos, ret |-> None, seen |-> << >>]
        ELSE LET v == e[1][1]
                 tags == e[1][2]
                 ahead == Iter_next(m, pos + 1)
             IN  IF tags_match_rule(tags, rule)
                 THEN IF ahead = None
                      THEN [pos |-> pos + 1, ret |-> Some(v), seen |-> <<v>>]
                      ELSE [pos |-> pos + 2, ret |-> Some(v),
                            seen |-> <<v, ahead[1][1]>>]
                 ELSE LET r == Matching_next_prefetch(m, rule, pos + 1)
                      IN  [r EXCEPT !.seen = <<v>> \o @]

RECURSIVE Matching_next(_, _, _)
Matching_next(m, rule, pos) ==
    LET e == Iter_next(m, pos)
    IN  IF e = None THEN [pos |-> pos, ret |-> None, seen |-> << >>]
        ELSE LET v == e[1][1]
                 tags == e[1][2]
             IN  IF tags_match_rule(tags, rule)
                 THEN [pos |-> pos + 1, ret |-> Some(v), seen |-> <<v>>]
                 ELSE LET r == Matching_next(m, rule, pos + 1)
                      IN  [r EXCEPT !.seen = <<v>> \o @]

\* MatchingEntries::next without the test of the rule.
MatchingEntries_next_unfiltered(m, rule, pos) ==
    LET e == Iter_next(m, pos)
    IN  IF e = None THEN [pos |-> pos, ret |-> None, seen |-> << >>]
        ELSE [pos |-> pos + 1, ret |-> Some(<<e[1][1], e[1][2]>>),
              seen |-> <<e[1][1]>>]

RECURSIVE MatchingEntries_next(_, _, _)
MatchingEntries_next(m, rule, pos) ==
    LET e == Iter_next(m, pos)
    IN  IF e = None THEN [pos |-> pos, ret |-> None, seen |-> << >>]
        ELSE LET v == e[1][1]
                 tags == e[1][2]
             IN  IF tags_match_rule(tags, rule)
                 THEN [pos |-> pos + 1, ret |-> Some(<<v, tags>>), seen |-> <<v>>]
                 ELSE LET r == MatchingEntries_next(m, rule, pos + 1)
                      IN  [r EXCEPT !.seen = <<v>> \o @]

-----------------------------------------------------------------------------
(* The query iterators.  A slot holds one Matching or MatchingEntries      *)
(* value: the BTreeMap cursor `pos` and the borrowed `rule`; and, as a     *)
(* record of what its caller has seen: the cursor it started from, the     *)
(* items it yielded, the keys it took from the map, and what its last      *)
(* next() returned.                                                        *)

Slots == {"a", "b"}

\* The rules the host queries with: the shapes of the test's rules over TAG.
QueryRules ==
    { Tags(<<"mammal">>),
      Tags(<<"fish", "mammal">>),
      NotTags(<<"mammal">>),
      Rules(<<Tags(<<"fish">>), NotTags(<<"mammal">>)>>),
      AnyTag(<<"fish", "mammal">>),
      AnyRule(<<Rules(<<Tags(<<"mammal">>), NotTags(<<"fish">>)>>),
                Rules(<<Tags(<<"fish">>), AnyTag(<<"mammal">>)>>)>>) }

NoIter ==
    [state |-> "none", kind |-> "Matching", rule |-> Tags(<< >>), pos |-> 0,
     start |-> 0, yielded |-> << >>, visited |-> << >>, ret |-> << >>]

NewIter(kind, rule, pos) ==
    [state |-> "live", kind |-> kind, rule |-> rule, pos |-> pos,
     start |-> pos, yielded |-> << >>, visited |-> << >>, ret |-> << >>]

InitEvalIdle ==
    /\ evalTags = << >>
    /\ evalRule = Tags(<< >>)
    /\ evalResult = << >>

Init ==
    /\ InitEvalIdle
    /\ entries \in TagMaps
    /\ iters = [s \in Slots |-> NoIter]

InitEval ==
    /\ evalTags \in TagVecs(MaxTagLen)
    /\ evalRule \in MatchRule(MaxRuleSize)
    /\ evalResult = << >>
    /\ entries = << >>
    /\ iters = [s \in Slots |-> NoIter]

\* TagMap::matching
matching(s, rule) ==
    /\ iters[s].state = "none"
    /\ iters' = [iters EXCEPT ![s] = NewIter("Matching", rule, 0)]
    /\ UNCHANGED <<evalTags, evalRule, evalResult, entries>>

\* TagMap::matching_entries
matching_entries(s, rule) ==
    /\ iters[s].state = "none"
    /\ iters' = [iters EXCEPT ![s] = NewIter("MatchingEntries", rule, 0)]
    /\ UNCHANGED <<evalTags, evalRule, evalResult, entries>>

\* #[derive(Clone)]: the copy holds the original's cursor and rule, and is a
\* sequence of its own from there on.
clone(s, t) ==
    /\ s # t
    /\ iters[s].state = "live"
    /\ iters[t].state = "none"
    /\ iters' = [iters EXCEPT ![t] = NewIter(iters[s].kind, iters[s].rule, iters[s].pos)]
    /\ UNCHANGED <<evalTags, evalRule, evalResult, entries>>

\* One call of next() on the iterator in slot s.
Stepped(it, r) ==
    [it EXCEPT !.pos = r.pos,
               !.ret = IF r.ret = None THEN <<"None">> ELSE <<"Some", r.ret[1]>>,
               !.yielded = @ \o r.ret,
               !.visited = @ \o r.seen]

\* next() over a cursor the live iterators share: the call moves them all.
next_shared_cursor(s) ==
    /\ iters[s].state = "live"
    /\ LET it == iters[s]
           r == IF it.kind = "Matching"
                THEN Matching_next(entries, it.rule, it.pos)
                ELSE MatchingEntries_next(entries, it.rule, it.pos)
       IN  iters' = [t \in Slots |->
                        IF t = s THEN Stepped(it, r)
                        ELSE IF iters[t].state = "live"
                             THEN [iters[t] EXCEPT !.pos = r.pos]
                             ELSE iters[t]]
    /\ UNCHANGED <<evalTags, evalRule, evalResult, entries>>

next(s) ==
    /\ iters[s].state = "live"
    /\ LET it == iters[s]
           r == IF it.kind = "Matching"
                THEN Matching_next(entries, it.rule, it.pos)
                ELSE MatchingEntries_next(entries, it.rule, it.pos)
       IN  iters' = [iters EXCEPT ![s] = Stepped(it, r)]
    /\ UNCHANGED <<evalTags, evalRule, evalResult, entries>>

\* The caller drops the iterator, exhausted or not.
drop(s) ==
    /\ iters[s].state = "live"
    /\ iters' = [iters EXCEPT ![s] = NoIter]
    /\ UNCHANGED <<evalTags, evalRule, evalResult, entries>>

Next ==
    \/ \E rule \in QueryRules : matching("a", rule)
    \/ \E rule \in QueryRules : matching_entries("a", rule)
    \/ next("a")
    \/ drop("a")

\* The rules the host queries with while it holds two iterators.
SharedRules ==
    { Tags(<<"mammal">>),
      Rules(<<Tags(<<"fish">>), NotTags(<<"mammal">>)>>) }

NextShared ==
    \/ \E s \in Slots, rule \in SharedRules : matching(s, rule)
    \/ \E s \in Slots, rule \in SharedRules : matching_entries(s, rule)
    \/ \E s \in Slots, t \in Slots : clone(s, t)
    \/ \E s \in Slots : next(s)
    \/ \E s \in Slots : drop(s)

Spec == Init /\ [][Next]_vars

SpecShared == Init /\ [][NextShared]_vars

-----------------------------------------------------------------------------
(* The evaluator under test.                                               *)

Evaluate ==
    /\ evalResult = << >>
    /\ evalResult' = <<tags_match_rule(evalTags, evalRule)>>
    /\ UNCHANGED <<evalTags, evalRule, entries, iters>>

NextEval == Evaluate

SpecEval == InitEval /\ [][NextEval]_vars

-----------------------------------------------------------------------------
(* Properties of the evaluator, under SpecEval.                            *)

Evaluated == evalResult # << >>

\* x occurs at least once in the slice.
Occurs(tags, x) == \E j \in 1..Len(tags) : tags[j] = x

NoDuplicate(tags) == \A i, j \in 1..Len(tags) : tags[i] = tags[j] => i = j

AllOccur(tags, m_tags) == \A i \in 1..Len(m_tags) : Occurs(tags, m_tags[i])

\* C1 (as stated): for every tag slice S and tag list L, duplicates allowed in
\* both, tags_match_rule(S, Tags(L)) is true iff every element of L occurs at
\* least once in S.
C1_TagsIffAllOccur ==
    (Evaluated /\ evalRule.kind = "Tags")
        => (evalResult[1] <=> AllOccur(evalTags, evalRule.tags))

\* C10: for every tag slice S holding no tag twice and every tag list L
\* (duplicates in L allowed), tags_match_rule(S, Tags(L)) is true iff every
\* element of L occurs in S.
C10_TagsIffAllOccurNoDup ==
    (Evaluated /\ evalRule.kind = "Tags" /\ NoDuplicate(evalTags))
        => (evalResult[1] <=> AllOccur(evalTags, evalRule.tags))

\* A duplicate-free S, an L that repeats a tag of S, and the call returned true.
C10_Witness ==
    /\ Evaluated
    /\ evalRule.kind = "Tags"
    /\ NoDuplicate(evalTags)
    /\ Len(evalTags) = 2
    /\ Len(evalRule.tags) = 2
    /\ evalRule.tags[1] = evalRule.tags[2]
    /\ evalResult[1]

\* The list a rule holds, tags or rules.
RuleList(rule) == IF rule.kind \in TagKinds THEN rule.tags ELSE rule.rules

\* C4: on an empty list Tags, NotTags, Rules and NotRules are true and AnyTag
\* and AnyRule are false, whatever the tag slice.
C4_EmptyLists ==
    (Evaluated /\ RuleList(evalRule) = << >>)
        => (evalResult[1] <=> evalRule.kind \in {"Tags", "NotTags", "Rules", "NotRules"})

\* Tags([]) was evaluated against a non-empty slice.
C4_Witness ==
    /\ Evaluated
    /\ evalRule = Tags(<< >>)
    /\ evalTags # << >>
    /\ evalResult[1]

\* C5 (as stated): NotTags(L) and AnyTag(L) are complementary exactly when L is
\* non-empty: complementary for non-empty L, not complementary for empty L.
C5_ComplementaryIffNonEmpty ==
    (Evaluated /\ evalRule.kind = "NotTags")
        => ((evalResult[1] # tags_match_rule(evalTags, AnyTag(evalRule.tags)))
                <=> evalRule.tags # << >>)

\* C5 (amended): NotTags(L) and AnyTag(L) are complementary for every L, the
\* empty one included.
C5_Complementary ==
    /\ (Evaluated /\ evalRule.kind = "NotTags")
        => evalResult[1] = ~ tags_match_rule(evalTags, AnyTag(evalRule.tags))
    /\ (Evaluated /\ evalRule.kind = "AnyTag")
        => evalResult[1] = ~ tags_match_rule(evalTags, NotTags(evalRule.tags))

\* NotTags([]) was evaluated: it is true, and AnyTag([]) is false.
C5_Witness ==
    /\ Evaluated
    /\ evalRule = NotTags(<< >>)
    /\ evalResult[1]
    /\ ~ tags_match_rule(evalTags, AnyTag(<< >>))

\* C6: tags_match_rule(S, Rules(rs)) is true iff tags_match_rule(S, r) is true
\* for every r in rs, nested and repeated rules included.
C6_RulesIffAll ==
    (Evaluated /\ evalRule.kind = "Rules")
        => (evalResult[1] <=>
                \A i \in 1..Len(evalRule.rules) :
                    tags_match_rule(evalTags, evalRule.rules[i]))

\* Rules([r, r']) was evaluated with r true and r' false.
C6_Witness ==
    /\ Evaluated
    /\ evalRule.kind = "Rules"
    /\ Len(evalRule.rules) = 2
    /\ tags_match_rule(evalTags, evalRule.rules[1])
    /\ ~ tags_match_rule(evalTags, evalRule.rules[2])
    /\ ~ evalResult[1]

\* C7: tags_match_rule(S, NotRules(rs)) is true iff tags_match_rule(S, r) is
\* false for every r in rs; for a single rule, NotRules([r]) is the negation
\* of r.
C7_NotRulesIffNone ==
    (Evaluated /\ evalRule.kind = "NotRules")
        => /\ evalResult[1] <=>
                \A i \in 1..Len(evalRule.rules) :
                    ~ tags_match_rule(evalTags, evalRule.rules[i])
           /\ Len(evalRule.rules) = 1
                => evalResult[1] = ~ tags_match_rule(evalTags, evalRule.rules[1])

\* NotRules([r]) was evaluated for a rule r over one tag that S does not satisfy.
C7_Witness ==
    /\ Evaluated
    /\ evalRule.kind = "NotRules"
    /\ Len(evalRule.rules) = 1
    /\ evalRule.rules[1].kind = "Tags"
    /\ Len(evalRule.rules[1].tags) = 1
    /\ evalTags # << >>
    /\ evalResult[1]

-----------------------------------------------------------------------------
(* Properties of the query iterators, under Spec (one iterator) and        *)
(* SpecShared (two iterators over the same map).                           *)

Live(s) == iters[s].state = "live"

\* The last next() on slot s returned None.
Exhausted(s) == Live(s) /\ iters[s].ret = <<"None">>

\* The key of a yielded item: Matching yields &T, MatchingEntries (&T, &[TAG]).
ItemKey(kind, item) == IF kind = "Matching" THEN item ELSE item[1]

Times(seq, x) == Cardinality({i \in 1..Len(seq) : seq[i] = x})

\* C2: matching(r) driven to exhaustion yields exactly the keys whose stored
\* tags satisfy r: each such key once, no other key at all.
C2_MatchingYieldsExactly ==
    \A s \in Slots :
        (Exhausted(s) /\ iters[s].kind = "Matching" /\ iters[s].start = 0)
            => /\ \A i \in 1..Len(iters[s].yielded) : iters[s].yielded[i] \in DOMAIN entries
               /\ \A k \in DOMAIN entries :
                    Times(iters[s].yielded, k) =
                        IF tags_match_rule(entries[k], iters[s].rule) THEN 1 ELSE 0

\* An exhausted matching(r) that yielded the second key and skipped the first.
C2_Witness ==
    /\ Exhausted("a")
    /\ iters["a"].kind = "Matching"
    /\ iters["a"].yielded = <<2>>
    /\ iters["a"].visited = <<1, 2>>

\* Matching driven alone from cursor `pos` until it returns None: the items.
RECURSIVE Matching_collect(_, _, _)
Matching_collect(m, rule, pos) ==
    LET r == Matching_next(m, rule, pos)
    IN  IF r.ret = None THEN << >> ELSE r.ret \o Matching_collect(m, rule, r.pos)

\* C3: matching_entries(r) driven to exhaustion yields the keys matching(r)
\* yields, in the same order, each paired with the tags stored for that key.
C3_EntriesAsMatching ==
    \A s \in Slots :
        (Exhausted(s) /\ iters[s].kind = "MatchingEntries" /\ iters[s].start = 0)
            => /\ [i \in 1..Len(iters[s].yielded) |-> iters[s].yielded[i][1]]
                    = Matching_collect(entries, iters[s].rule, 0)
               /\ \A i \in 1..Len(iters[s].yielded) :
                    iters[s].yielded[i][2] = entries[iters[s].yielded[i][1]]

\* An exhausted matching_entries(r) that yielded an entry holding two tags and
\* skipped another entry.
C3_Witness ==
    /\ Exhausted("a")
    /\ iters["a"].kind = "MatchingEntries"
    /\ Len(iters["a"].yielded) = 1
    /\ Len(iters["a"].yielded[1][2]) = 2
    /\ Len(iters["a"].visited) = 2

StrictlyAscending(seq) == \A i, j \in 1..Len(seq) : i < j => seq[i] < seq[j]

Matches(k, rule) == tags_match_rule(entries[k], rule)

\* What holds of a sequence at any time: the keys it visited are strictly
\* ascending (so each at most once), it yielded at most n items, and right
\* after a yield the last key visited is the yielded one.
C8_State(s) ==
    Live(s) =>
        LET it == iters[s]
            n == Cardinality(DOMAIN entries)
        IN  /\ StrictlyAscending(it.visited)
            /\ \A i \in 1..Len(it.visited) : it.visited[i] \in DOMAIN entries
            /\ Len(it.yielded) <= n
            /\ (Len(it.ret) = 2) =>
                    /\ it.visited # << >>
                    /\ it.visited[Len(it.visited)] = ItemKey(it.kind, it.ret[2])
                    /\ it.yielded[Len(it.yielded)] = it.ret[2]

\* What holds of one next() call: it visits the entries after the cursor in
\* key order, up to and including the first that satisfies the rule, and
\* yields that one; with none left that satisfies it, it visits the rest and
\* returns None; with all n visited before the call, it returns None.
C8_Call(s) ==
    LET a == iters[s]
        b == iters'[s]
        keys == SortedKeys(entries)
        n == Len(keys)
    IN  (a.state = "live" /\ b.state = "live" /\ a # b) =>
            /\ a.pos <= b.pos /\ b.pos <= n
            /\ b.visited = a.visited \o SubSeq(keys, a.pos + 1, b.pos)
            /\ \A i \in (a.pos + 1)..(b.pos - 1) : ~ Matches(keys[i], a.rule)
            /\ b.ret[1] = "Some" =>
                    /\ b.pos > a.pos
                    /\ Matches(keys[b.pos], a.rule)
                    /\ ItemKey(a.kind, b.ret[2]) = keys[b.pos]
                    /\ b.yielded = a.yielded \o <<b.ret[2]>>
            /\ b.ret[1] = "None" =>
                    /\ b.pos = n
                    /\ \A i \in (a.pos + 1)..n : ~ Matches(keys[i], a.rule)
                    /\ b.yielded = a.yielded
            /\ a.pos = n => b.ret = <<"None">>

\* C8: over any sequence of next() calls the entries are visited in strictly
\* ascending key order, each at most once; a call visits entries up to and
\* including the first match and yields it; once all n are visited every call
\* returns None; at most n items are yielded, and nothing past the last
\* yielded entry has been visited when the caller stops.
C8_LazyInOrder ==
    /\ [](\A s \in Slots : C8_State(s))
    /\ [][\A s \in Slots : C8_Call(s)]_vars

\* A caller that stopped early: one call skipped the first entry and yielded
\* the second, and a third entry is left unvisited.
C8_Witness ==
    /\ Live("a")
    /\ iters["a"].visited = <<1, 2>>
    /\ Len(iters["a"].ret) = 2
    /\ Len(iters["a"].yielded) = 1
    /\ iters["a"].pos < Cardinality(DOMAIN entries)

\* MatchingEntries driven alone from cursor `pos` until it returns None.
RECURSIVE MatchingEntries_collect(_, _, _)
MatchingEntries_collect(m, rule, pos) ==
    LET r == MatchingEntries_next(m, rule, pos)
    IN  IF r.ret = None THEN << >>
        ELSE r.ret \o MatchingEntries_collect(m, rule, r.pos)

\* What the sequence in slot s yields when nothing else runs.
Alone(s) ==
    IF iters[s].kind = "Matching"
    THEN Matching_collect(entries, iters[s].rule, iters[s].start)
    ELSE MatchingEntries_collect(entries, iters[s].rule, iters[s].start)

IsPrefix(p, q) == Len(p) <= Len(q) /\ SubSeq(q, 1, Len(p)) = p

\* Whatever the interleaving, a sequence has yielded a prefix of what it
\* yields alone, and all of it once it returned None.
C9_State(s) ==
    Live(s) =>
        /\ IsPrefix(iters[s].yielded, Alone(s))
        /\ Exhausted(s) => iters[s].yielded = Alone(s)

\* No step changes the map, or the rule a sequence holds.
C9_Step ==
    /\ entries' = entries
    /\ \A s \in Slots :
        (iters[s].state = "live" /\ iters'[s].state = "live")
            => iters'[s].rule = iters[s].rule

\* C9: with several sequences alive over the same map (from matching,
\* matching_entries or clone) and their next() calls interleaved in any order,
\* each yields exactly what it would yield if driven alone, and no step
\* changes the map's entries or the rules.
C9_Independent ==
    /\ [](\A s \in Slots : C9_State(s))
    /\ [][C9_Step]_vars

\* Two sequences of different kinds and rules, both alive, both have yielded,
\* at different cursors.
C9_Witness ==
    /\ Live("a") /\ Live("b")
    /\ iters["a"].kind # iters["b"].kind
    /\ iters["a"].rule # iters["b"].rule
    /\ iters["a"].yielded # << >>
    /\ iters["b"].yielded # << >>
    /\ iters["a"].pos # iters["b"].pos

====
